---------------------------- MODULE Spec2Model ----------------------------
(***************************************************************************)
(* A model of the KubeVirt metrics documentation generator                 *)
(* (tools/doc-generator: main, parseVirtMetrics, writeToFile) and of the   *)
(* feature-gate deprecation table (pkg/virt-config).                       *)
(*                                                                         *)
(* Go strings are TLA+ strings; the string functions the generator calls   *)
(* (strings.Split, Join, HasPrefix, Contains, Title, the < of two strings) *)
(* are computed character by character.                                    *)
(***************************************************************************)
EXTENDS Integers, Sequences, FiniteSets, TLC

VARIABLES
    pc,            \* position of the running function
    status,        \* recorder.Code
    body,          \* recorder.Body: the lines the scanner delivers
    cursor,        \* bufio.Scanner: number of lines consumed so far
    scanDone,      \* bufio.Scanner: Scan has returned false
    scanErr,       \* bufio.Scanner: Err() is non-nil
    metrics,       \* the metricList main builds and parseVirtMetrics appends to
    metName,       \* parseVirtMetrics: metName of the help line being resolved
    metDesc,       \* parseVirtMetrics: metDesc of the help line being resolved
    helpAt,        \* index in body of the help line being resolved
    appended,      \* history: what parseVirtMetrics appended, and from which lines
    initial,       \* history: the list handed to parseVirtMetrics
    err,           \* parseVirtMetrics' return value: "none", "nil" or "error"
    panicked,      \* cause of the panic that ended the run, or "no"
    fileCreated,   \* os.Create("newmetrics.md") succeeded
    writes,        \* the Fprint/Fprintln calls on newFile, each with its outcome
    sortedAs,      \* history: the list as sort.Sort left it
    featureGates,  \* virtconfig: the package-level deprecation table
    fgInit,        \* virtconfig: init() has run
    enabled,       \* the last call of isFeatureGateEnabled and its result
    info           \* the last call of DeprecatedFeatureGateInfo and the caller's copy

scanVars == <<body, cursor, scanDone, scanErr>>
parseVars == <<metrics, metName, metDesc, helpAt, appended, initial, err, sortedAs>>
mainVars == <<status, fileCreated, writes>>
fgVars == <<featureGates, fgInit, enabled, info>>
vars == <<pc, panicked, scanVars, parseVars, mainVars, fgVars>>

---------------------------------------------------------------------------
(* Bounds of the model.                                                    *)

\* longest body handed to parseVirtMetrics on its own
MaxLines == 4

\* most writes to the output file that fail in one run
MaxWriteFailures == 1

\* longest DeveloperConfiguration.FeatureGates of the cluster configuration
MaxGates == 2

---------------------------------------------------------------------------
(* Go's string functions.                                                  *)

\* the printable ASCII characters in byte order: 32 (space) to 95 (_), and
\* 97 (a) to 126 (~); byte 96 cannot be written in a TLA+ string
AsciiLow ==
    " !\"#$%&'(" \o ")*+,-./0123456789:;<=>?@"
        \o "ABCDEFGHIJKLMNOPQRSTUVWXYZ[\\]^_"

AsciiHigh == "abcdefghijklmnopqrstuvwxyz{|}~"

CharAt(s, i) == SubSeq(s, i, i)

\* the byte value of a one-character string
Ord(c) ==
    IF \E i \in 1..Len(AsciiLow) : CharAt(AsciiLow, i) = c
    THEN 31 + (CHOOSE i \in 1..Len(AsciiLow) : CharAt(AsciiLow, i) = c)
    ELSE 96 + (CHOOSE i \in 1..Len(AsciiHigh) : CharAt(AsciiHigh, i) = c)

Chr(n) == IF n <= 95 THEN CharAt(AsciiLow, n - 31) ELSE CharAt(AsciiHigh, n - 96)

\* a < b of two Go strings: byte-wise lexicographic
RECURSIVE StrLessFrom(_, _, _)
StrLessFrom(a, b, i) ==
    IF i > Len(b) THEN FALSE
    ELSE IF i > Len(a) THEN TRUE
    ELSE IF CharAt(a, i) = CharAt(b, i) THEN StrLessFrom(a, b, i + 1)
    ELSE Ord(CharAt(a, i)) < Ord(CharAt(b, i))

StrLess(a, b) == StrLessFrom(a, b, 1)

HasPrefix(s, prefix) ==
    Len(s) >= Len(prefix) /\ SubSeq(s, 1, Len(prefix)) = prefix

Contains(s, substr) ==
    \E i \in 1..(Len(s) - Len(substr) + 1) :
        SubSeq(s, i, i + Len(substr) - 1) = substr

\* strings.Split(s, sep) for a non-empty sep: never empty, one more element
\* than there are separators
RECURSIVE SplitFrom(_, _, _, _)
SplitFrom(s, sep, start, i) ==
    IF i + Len(sep) - 1 > Len(s) THEN <<SubSeq(s, start, Len(s))>>
    ELSE IF SubSeq(s, i, i + Len(sep) - 1) = sep
    THEN <<SubSeq(s, start, i - 1)>>
             \o SplitFrom(s, sep, i + Len(sep), i + Len(sep))
    ELSE SplitFrom(s, sep, start, i + 1)

Split(s, sep) == SplitFrom(s, sep, 1, 1)

RECURSIVE Join(_, _)
Join(elems, sep) ==
    IF Len(elems) = 0 THEN ""
    ELSE IF Len(elems) = 1 THEN elems[1]
    ELSE elems[1] \o sep \o Join(Tail(elems), sep)

\* strings.isSeparator on ASCII: everything but letters, digits and underscore
isSeparator(c) ==
    LET n == Ord(c)
    IN  ~ \/ (48 <= n /\ n <= 57)
          \/ (97 <= n /\ n <= 122)
          \/ (65 <= n /\ n <= 90)
          \/ n = 95

\* unicode.ToTitle on ASCII
ToTitle(c) ==
    LET n == Ord(c) IN IF 97 <= n /\ n <= 122 THEN Chr(n - 32) ELSE c

\* strings.Title: the first letter of every word in upper case
RECURSIVE TitleFrom(_, _)
TitleFrom(prev, s) ==
    IF Len(s) = 0 THEN ""
    ELSE (IF isSeparator(prev) THEN ToTitle(Head(s)) ELSE Head(s))
             \o TitleFrom(Head(s), Tail(s))

Title(s) == TitleFrom(" ", s)

---------------------------------------------------------------------------
(* The metric list and its order.                                          *)

\* type metric struct
Metric(n, d, t) == [name |-> n, description |-> d, mType |-> t]

\* Less with its operands exchanged
LessDescending(m, i, j) == StrLess(m[j].name, m[i].name)

\* metricList.Less
Less(m, i, j) == StrLess(m[i].name, m[j].name)

RemoveAt(s, i) == SubSeq(s, 1, i - 1) \o SubSeq(s, i + 1, Len(s))

\* sort.Sort(metrics): an ordering of the list by Less. sort.Sort is not
\* stable, so entries of equal name may come out in any order.
RECURSIVE SortOutcomes(_)
SortOutcomes(m) ==
    IF Len(m) = 0 THEN {<<>>}
    ELSE LET least == {i \in 1..Len(m) : \A j \in 1..Len(m) : ~Less(m, j, i)}
         IN  UNION {{<<m[i]>> \o rest : rest \in SortOutcomes(RemoveAt(m, i))} :
                      i \in least}

---------------------------------------------------------------------------
(* The exposition parser.                                                  *)

filter == "kubevirt_"

\* parseMetricDesc guarding its indices: a short line gives an empty description
parseMetricDescGuarded(line) ==
    LET split == Split(line, " ")
    IN  [panics |-> FALSE,
         name |-> IF Len(split) < 3 THEN "" ELSE split[3],
         description |->
             IF Len(split) < 4 THEN ""
             ELSE Join(<<Title(split[4])>> \o SubSeq(split, 5, Len(split)), " ")]

\* parseMetricDesc: split[2] and split[3] panic on a line of fewer than 4
\* elements; otherwise the name and the description
parseMetricDesc(line) ==
    LET split == Split(line, " ")
    IN  IF Len(split) < 4
        THEN [panics |-> TRUE]
        ELSE [panics |-> FALSE,
              name |-> split[3],
              description |->
                  Join(<<Title(split[4])>> \o SubSeq(split, 5, Len(split)), " ")]

\* parseVirtMetrics, the two tests on helpLine
Qualifies(helpLine) ==
    HasPrefix(helpLine, "# HELP ") /\ Contains(helpLine, filter)

\* the test of parseMetricType comparing split[1], the word TYPE
TypeLineMatchesWrongToken(typeLine, name) ==
    HasPrefix(typeLine, "# TYPE ") /\ Split(typeLine, " ")[2] = name

\* parseMetricType, the two tests on typeLine (HasPrefix guarantees split[2])
TypeLineMatches(typeLine, name) ==
    HasPrefix(typeLine, "# TYPE ") /\ Split(typeLine, " ")[3] = name

\* parseMetricType returning split[3] as it stands
TypeOfLineNoTitle(typeLine) ==
    LET split == Split(typeLine, " ")
    IN  IF Len(split) < 4
        THEN [panics |-> TRUE]
        ELSE [panics |-> FALSE, mType |-> split[4]]

\* parseMetricType, on a matching line: split[3] panics on a line of 3
\* elements; otherwise the type
TypeOfLine(typeLine) ==
    LET split == Split(typeLine, " ")
    IN  IF Len(split) < 4
        THEN [panics |-> TRUE]
        ELSE [panics |-> FALSE, mType |-> Title(split[4])]

\* bufio.Scanner.Scan returns true and delivers body[cursor + 1]
ScanHasLine == ~scanDone /\ cursor < Len(body)

Advance(c) == c + 1

\* parseMetricType scanning a copy: the help-line loop goes on after the help line
ResumeAtHelp(help, typeAt) == help

\* parseMetricType is handed the scanner of parseVirtMetrics: when it has
\* found the type at line typeAt, the help-line loop goes on after that line
ResumeAt(help, typeAt) == typeAt

\* bufio.Scanner.Scan returns false: at the end of the stream, or on a read
\* error, which Err() then reports; once false it stays false
ScanStops ==
    /\ scanDone' = TRUE
    /\ scanErr' \in (IF scanDone THEN {scanErr} ELSE BOOLEAN)
    /\ UNCHANGED <<body, cursor>>

\* an unrecovered panic ends the process
Panic(cause) ==
    /\ pc' = "panicked"
    /\ panicked' = cause

\* parseVirtMetrics: one turn of `for scan.Scan()`, up to the call of
\* parseMetricType
parseVirtMetricsScan ==
    /\ pc = "scan"
    /\ IF ScanHasLine
       THEN LET helpLine == body[cursor + 1]
                desc == parseMetricDesc(helpLine)
            IN  /\ cursor' = Advance(cursor)
                /\ UNCHANGED <<body, scanDone, scanErr>>
                /\ IF ~Qualifies(helpLine)
                   THEN /\ pc' = "scan"
                        /\ UNCHANGED <<metName, metDesc, helpAt, panicked>>
                   ELSE IF desc.panics
                   THEN /\ Panic("index out of range")
                        /\ UNCHANGED <<metName, metDesc, helpAt>>
                   ELSE /\ pc' = "type"
                        /\ metName' = desc.name
                        /\ metDesc' = desc.description
                        /\ helpAt' = cursor + 1
                        /\ UNCHANGED panicked
       ELSE /\ ScanStops
            /\ pc' = "check"
            /\ UNCHANGED <<metName, metDesc, helpAt, panicked>>
    /\ UNCHANGED <<metrics, appended, initial, err, sortedAs, mainVars, fgVars>>

\* the append of the metric to the list, with the lines it came from
AppendMetric(metType, typeAt) ==
    LET m == Metric(metName, metDesc, metType)
    IN  /\ metrics' = Append(metrics, m)
        /\ appended' = Append(appended, [help |-> helpAt, type |-> typeAt, m |-> m])

\* parseMetricType: one turn of its `for scan.Scan()`; on its return the
\* caller appends the metric
parseMetricTypeScan ==
    /\ pc = "type"
    /\ IF ScanHasLine
       THEN LET typeLine == body[cursor + 1]
                found == TypeOfLine(typeLine)
            IN  /\ UNCHANGED <<body, scanDone, scanErr>>
                /\ IF ~TypeLineMatches(typeLine, metName)
                   THEN /\ pc' = "type"
                        /\ cursor' = Advance(cursor)
                        /\ UNCHANGED <<metrics, appended, panicked>>
                   ELSE IF found.panics
                   THEN /\ Panic("index out of range")
                        /\ cursor' = Advance(cursor)
                        /\ UNCHANGED <<metrics, appended>>
                   ELSE /\ pc' = "scan"
                        /\ cursor' = ResumeAt(helpAt, Advance(cursor))
                        /\ AppendMetric(found.mType, cursor + 1)
                        /\ UNCHANGED panicked
       ELSE /\ ScanStops
            /\ pc' = "scan"
            /\ AppendMetric("", 0)
            /\ UNCHANGED panicked
    /\ UNCHANGED <<metName, metDesc, helpAt, initial, err, sortedAs, mainVars,
                   fgVars>>

\* parseVirtMetrics after the loop: the error of the scanner, or the sort
parseVirtMetricsReturn ==
    /\ pc = "check"
    /\ pc' = "returned"
    /\ IF scanErr
       THEN /\ err' = "error"
            /\ UNCHANGED <<metrics, sortedAs>>
       ELSE /\ err' = "nil"
            /\ metrics' \in SortOutcomes(metrics)
            /\ sortedAs' = metrics'
    /\ UNCHANGED <<scanVars, metName, metDesc, helpAt, appended, initial,
                   panicked, mainVars, fgVars>>

---------------------------------------------------------------------------
(* The static registry and the rule adapter.                               *)

\* the metric names of package domainstats
MigrateVmiDataProcessedMetricName == "kubevirt_migrate_vmi_data_processed_bytes"
MigrateVmiDataRemainingMetricName == "kubevirt_migrate_vmi_data_remaining_bytes"
MigrateVmiDirtyMemoryRateMetricName == "kubevirt_migrate_vmi_dirty_memory_rate_bytes"
MigrateVmiMemoryTransferRateMetricName == "kubevirt_migrate_vmi_memory_transfer_rate_bytes"
MigrateVmiDiskTransferRateMetricName == "kubevirt_migrate_vmi_disk_transfer_rate_bytes"

\* components.GetRecordingRules(""): a list of rules, each with Rule.Record,
\* Description and MType
GetRecordingRules ==
    << [Record |-> "kubevirt_virt_api_up_total",
        Description |-> "The total number of virt-api pods that are up.",
        MType |-> "gauge"],
       [Record |-> "kubevirt_vmi_phase_count",
        Description |-> "Sum of VMIs per phase and node.",
        MType |-> "gauge"] >>

\* the literal list of getMetricsNotIncludeInEndpointByDefault (the quotes
\* around phase and its values stand for the source's backquotes)
StaticMetrics ==
    << Metric(MigrateVmiDataProcessedMetricName,
              "The total Guest OS data processed and migrated to the new VM.",
              "Gauge"),
       Metric(MigrateVmiDataRemainingMetricName,
              "The remaining guest OS data to be migrated to the new VM.",
              "Gauge"),
       Metric(MigrateVmiDirtyMemoryRateMetricName,
              "The rate of memory being dirty in the Guest OS.",
              "Gauge"),
       Metric(MigrateVmiMemoryTransferRateMetricName,
              "The rate at which the memory is being transferred.",
              "Gauge"),
       Metric(MigrateVmiDiskTransferRateMetricName,
              "The rate at which the disk is being transferred.",
              "Gauge"),
       Metric("kubevirt_vmi_phase_count",
              "Sum of VMIs per phase and node. 'phase' can be one of the following: ['Pending', 'Scheduling', 'Scheduled', 'Running', 'Succeeded', 'Failed', 'Unknown'].",
              "Gauge"),
       Metric("kubevirt_vmi_non_evictable",
              "Indication for a VirtualMachine that its eviction strategy is set to Live Migration but is not migratable.",
              "Gauge"),
       Metric("kubevirt_vmi_migration_phase_transition_time_from_creation_seconds",
              "Histogram of VM migration phase transitions duration from creation time in seconds.",
              "Histogram"),
       Metric("kubevirt_vmi_phase_transition_time_seconds",
              "Histogram of VM phase transitions duration between different phases in seconds.",
              "Histogram"),
       Metric("kubevirt_vmi_phase_transition_time_from_creation_seconds",
              "Histogram of VM phase transitions duration from creation time in seconds.",
              "Histogram"),
       Metric("kubevirt_vmi_phase_transition_time_from_deletion_seconds",
              "Histogram of VM phase transitions duration from deletion time in seconds.",
              "Histogram"),
       Metric("kubevirt_virt_operator_leading_status",
              "Indication for an operating virt-operator.",
              "Gauge"),
       Metric("kubevirt_virt_operator_ready_status",
              "Indication for a virt-operator that is ready to take the lead.",
              "Gauge") >>

\* the loop over the recording rules: one metric per rule, its type title-cased
RuleMetrics(rs) ==
    [i \in 1..Len(rs) |->
        Metric(rs[i].Record, rs[i].Description, Title(rs[i].MType))]

getMetricsNotIncludeInEndpointByDefault(rs) == StaticMetrics \o RuleMetrics(rs)

---------------------------------------------------------------------------
(* Exposition lines and bodies the handler is given to return.             *)

HelpVmiCount == "# HELP kubevirt_vmi_count some vm count."
TypeVmiCount == "# TYPE kubevirt_vmi_count gauge"
HelpPhaseCount == "# HELP kubevirt_vmi_phase_count sum of VMIs per phase."
TypePhaseCount == "# TYPE kubevirt_vmi_phase_count counter"
HelpGo == "# HELP go_goroutines number of goroutines."
TypeGo == "# TYPE go_goroutines gauge"
HelpRest == "# HELP rest_client_requests_total requests of kubevirt_ clients."
HelpShort == "# HELP kubevirt_vmi_count"
TypeShort == "# TYPE kubevirt_vmi_count"

Lines ==
    {HelpVmiCount, TypeVmiCount, HelpPhaseCount, TypePhaseCount, HelpGo, TypeGo,
     HelpRest, HelpShort, TypeShort}

\* every body of at most n of these lines
Bodies(n) == UNION {[1..k -> Lines] : k \in 0..n}

\* the bodies the in-process handler returns in the runs of main
ScrapeBodies ==
    { <<>>,
      <<HelpVmiCount, TypeVmiCount>>,
      <<HelpGo, TypeGo, HelpVmiCount, TypeVmiCount>>,
      <<HelpVmiCount, TypeVmiCount, HelpPhaseCount, TypePhaseCount>>,
      <<HelpPhaseCount, HelpVmiCount, TypeVmiCount>>,
      <<HelpRest, HelpVmiCount, TypeVmiCount>>,
      <<HelpShort, TypeVmiCount>>,
      <<HelpVmiCount, TypeShort>>,
      <<HelpPhaseCount, HelpShort, TypeVmiCount>> }

\* the list parseVirtMetrics is handed on its own: one static entry
InitialLists == {<<StaticMetrics[6]>>}

\* http.StatusOK
StatusOK == 200

\* the status codes the handler is given to return
Statuses == {StatusOK, 204, 500}

---------------------------------------------------------------------------
(* main.                                                                   *)

\* main: handler.ServeHTTP(recorder, req)
mainServeHTTP ==
    /\ pc = "main"
    /\ pc' = "registry"
    /\ status' \in Statuses
    /\ body' \in ScrapeBodies
    /\ UNCHANGED <<cursor, scanDone, scanErr, parseVars, panicked, fileCreated,
                   writes, fgVars>>

\* main: metrics := getMetricsNotIncludeInEndpointByDefault()
mainGetMetrics ==
    /\ pc = "registry"
    /\ pc' = "status"
    /\ metrics' = getMetricsNotIncludeInEndpointByDefault(GetRecordingRules)
    /\ UNCHANGED <<scanVars, metName, metDesc, helpAt, appended, initial, err,
                   sortedAs, panicked, mainVars, fgVars>>

\* main: the test of recorder.Code
IsOK(code) == code = StatusOK

\* main: if status == http.StatusOK { parseVirtMetrics(...) } else { panic }
mainCheckStatus ==
    /\ pc = "status"
    /\ IF IsOK(status)
       THEN /\ pc' = "scan"
            /\ initial' = metrics
            /\ UNCHANGED panicked
       ELSE /\ Panic("status")
            /\ UNCHANGED initial
    /\ UNCHANGED <<scanVars, metrics, metName, metDesc, helpAt, appended, err,
                   sortedAs, mainVars, fgVars>>

\* a checkError that never panics
FatalNever(e) == FALSE

\* checkError(err)
Fatal(e) == e # "nil"

\* main: checkError(err) on parseVirtMetrics' return
mainCheckError ==
    /\ pc = "returned"
    /\ IF Fatal(err)
       THEN Panic("scan error")
       ELSE /\ pc' = "create"
            /\ UNCHANGED panicked
    /\ UNCHANGED <<scanVars, parseVars, mainVars, fgVars>>

---------------------------------------------------------------------------
(* The renderer.                                                           *)

\* the number of writes that have failed
Failed == Cardinality({i \in 1..Len(writes) : ~writes[i].ok})

\* the outcomes k more writes can have
Outcomes(k) ==
    {o \in [1..k -> BOOLEAN] :
        Failed + Cardinality({i \in 1..k : ~o[i]}) <= MaxWriteFailures}

\* a write to newFile: the part of the document, the metric it is of (0 for
\* the opening and the footer) and whether the write succeeded
Write(part, of, ok) == [part |-> part, of |-> of, ok |-> ok]

\* the number of metric blocks written so far
Rendered == Cardinality({i \in 1..Len(writes) : writes[i].part = "blank"})

\* writeToFile: os.Create and checkError
writeToFileCreate ==
    /\ pc = "create"
    /\ \E created \in BOOLEAN :
          IF created
          THEN /\ fileCreated' = TRUE
               /\ pc' = "opening"
               /\ UNCHANGED panicked
          ELSE /\ Panic("create")
               /\ UNCHANGED fileCreated
    /\ UNCHANGED <<scanVars, parseVars, status, writes, fgVars>>

\* writeToFile: fmt.Fprint(newFile, opening); the result is not looked at
writeToFileOpening ==
    /\ pc = "opening"
    /\ pc' = "blocks"
    /\ \E o \in Outcomes(1) : writes' = Append(writes, Write("opening", 0, o[1]))
    /\ UNCHANGED <<scanVars, parseVars, status, fileCreated, panicked, fgVars>>

\* metricList.writeToFile: range over the list
NextMetric == Rendered + 1

\* metric.writeToFile: the three Fprintln of one metric; their results are
\* not looked at
metricWriteToFile ==
    /\ pc = "blocks"
    /\ Rendered < Len(metrics)
    /\ \E o \in Outcomes(3) :
          writes' = writes \o << Write("heading", NextMetric, o[1]),
                                 Write("body", NextMetric, o[2]),
                                 Write("blank", NextMetric, o[3]) >>
    /\ UNCHANGED <<pc, scanVars, parseVars, status, fileCreated, panicked, fgVars>>

\* writeToFile: fmt.Fprint(newFile, footer), the deferred Close, and the
\* return of main
writeToFileFooter ==
    /\ pc = "blocks"
    /\ Rendered = Len(metrics)
    /\ pc' = "done"
    /\ \E o \in Outcomes(1) : writes' = Append(writes, Write("footer", 0, o[1]))
    /\ UNCHANGED <<scanVars, parseVars, status, fileCreated, panicked, fgVars>>

---------------------------------------------------------------------------
(* The feature-gate deprecation table.                                     *)

GA == "Genraly Available"
Deprecated == "Deprecated"
Discontinued == "Discontinued"

\* the gate names of package virtconfig
LiveMigrationGate == "LiveMigration"
SRIOVLiveMigrationGate == "SRIOVLiveMigration"
NonRoot == "NonRoot"
PSA == "PSA"
CPUNodeDiscoveryGate == "CPUNodeDiscovery"
PasstGate == "Passt"

DeprecatedFeatureGate(n, st, msg) == [Name |-> n, State |-> st, Message |-> msg]

\* var featureGates = [...]DeprecatedFeatureGate{...}, as declared
DeclaredFeatureGates ==
    << DeprecatedFeatureGate(LiveMigrationGate, GA, ""),
       DeprecatedFeatureGate(SRIOVLiveMigrationGate, GA, ""),
       DeprecatedFeatureGate(NonRoot, GA, ""),
       DeprecatedFeatureGate(PSA, GA, ""),
       DeprecatedFeatureGate(CPUNodeDiscoveryGate, GA, ""),
       DeprecatedFeatureGate(PasstGate, Deprecated,
           "Passt network binding will be deprecated next release. Please refer to Kubevirt user guide for alternatives.") >>

\* fmt.Sprintf(warningPattern, fg.Name)
Warning(name) ==
    "feature gate " \o name
        \o " is deprecated, therefore it can be safely removed and is redundant. "
        \o "For more info, please look at: https://github.com/kubevirt/kubevirt/blob/main/docs/deprecation.md"

\* init: the message of one entry after the loop
FillMessage(fg) ==
    IF fg.Message = "" THEN [fg EXCEPT !.Message = Warning(fg.Name)] ELSE fg

\* the gate names asked about: those of the table and one more
GateNames ==
    {LiveMigrationGate, SRIOVLiveMigrationGate, NonRoot, PSA,
     CPUNodeDiscoveryGate, PasstGate, "Snapshot"}

\* the gate names a cluster configuration lists: one that is GA, the one that
\* is Deprecated and the one the table does not hold
ConfiguredNames == {LiveMigrationGate, PasstGate, "Snapshot"}

GateLists == UNION {[1..k -> ConfiguredNames] : k \in 0..MaxGates}

\* a nil *DeprecatedFeatureGate
Nil == [found |-> FALSE, value |-> DeprecatedFeatureGate("", "", "")]

\* DeprecatedFeatureGateInfo: a pointer to a copy of the first entry of that
\* name, or nil
DeprecatedFeatureGateInfo(table, featureGate) ==
    LET hits == {i \in 1..Len(table) : featureGate = table[i].Name}
    IN  IF hits = {} THEN Nil
        ELSE [found |-> TRUE,
              value |-> table[CHOOSE i \in hits : \A j \in hits : i <= j]]

\* isFeatureGateEnabled without the deprecation table
isFeatureGateEnabledListOnly(table, featureGates_, featureGate) ==
    \E i \in 1..Len(featureGates_) : featureGates_[i] = featureGate

\* ClusterConfig.isFeatureGateEnabled
isFeatureGateEnabled(table, featureGates_, featureGate) ==
    LET deprectedFeature == DeprecatedFeatureGateInfo(table, featureGate)
    IN  IF deprectedFeature.found /\ deprectedFeature.value.State = GA
        THEN TRUE
        ELSE IF deprectedFeature.found
                  /\ deprectedFeature.value.State = Discontinued
        THEN FALSE
        ELSE \E i \in 1..Len(featureGates_) : featureGates_[i] = featureGate

\* func init()
virtconfigInit ==
    /\ pc = "virtconfig"
    /\ ~fgInit
    /\ fgInit' = TRUE
    /\ featureGates' = [i \in 1..Len(featureGates) |-> FillMessage(featureGates[i])]
    /\ UNCHANGED <<pc, panicked, scanVars, parseVars, mainVars, enabled, info>>

\* a call of config.isFeatureGateEnabled(featureGate), on a configuration
\* whose DeveloperConfiguration.FeatureGates is list
CallIsFeatureGateEnabled ==
    /\ pc = "virtconfig"
    /\ fgInit
    /\ \E g \in GateNames, list \in GateLists :
          enabled' = [called |-> TRUE, gate |-> g, list |-> list,
                      result |-> isFeatureGateEnabled(featureGates, list, g)]
    /\ UNCHANGED <<pc, panicked, scanVars, parseVars, mainVars, featureGates,
                   fgInit, info>>

\* a call of DeprecatedFeatureGateInfo(featureGate)
CallDeprecatedFeatureGateInfo ==
    /\ pc = "virtconfig"
    /\ fgInit
    /\ \E g \in GateNames :
          info' = [called |-> TRUE, gate |-> g, changed |-> FALSE,
                   ptr |-> DeprecatedFeatureGateInfo(featureGates, g)]
    /\ UNCHANGED <<pc, panicked, scanVars, parseVars, mainVars, featureGates,
                   fgInit, enabled>>

\* the caller writes through the pointer it was returned
CallerChangesInfo ==
    /\ pc = "virtconfig"
    /\ info.called
    /\ info.ptr.found
    /\ \E st \in {GA, Deprecated, Discontinued}, msg \in {"", "changed"} :
          info' = [info EXCEPT !.changed = TRUE, !.ptr.value.State = st,
                                !.ptr.value.Message = msg]
    /\ UNCHANGED <<pc, panicked, scanVars, parseVars, mainVars, featureGates,
                   fgInit, enabled>>

---------------------------------------------------------------------------
(* The specifications.                                                     *)

NoCall == [called |-> FALSE, gate |-> "", list |-> <<>>, result |-> FALSE]
NoInfo == [called |-> FALSE, gate |-> "", changed |-> FALSE, ptr |-> Nil]

InitScanner ==
    /\ cursor = 0
    /\ scanDone = FALSE
    /\ scanErr = FALSE

InitParser ==
    /\ sortedAs = <<>>
    /\ metName = ""
    /\ metDesc = ""
    /\ helpAt = 0
    /\ appended = <<>>
    /\ err = "none"

InitFile ==
    /\ status = 0
    /\ fileCreated = FALSE
    /\ writes = <<>>

InitVirtConfig ==
    /\ featureGates = DeclaredFeatureGates
    /\ fgInit = FALSE
    /\ enabled = NoCall
    /\ info = NoInfo

\* a run of main
Init ==
    /\ pc = "main"
    /\ panicked = "no"
    /\ body = <<>>
    /\ metrics = <<>>
    /\ initial = <<>>
    /\ InitScanner /\ InitParser /\ InitFile /\ InitVirtConfig

Next ==
    \/ mainServeHTTP
    \/ mainGetMetrics
    \/ mainCheckStatus
    \/ parseVirtMetricsScan
    \/ parseMetricTypeScan
    \/ parseVirtMetricsReturn
    \/ mainCheckError
    \/ writeToFileCreate
    \/ writeToFileOpening
    \/ metricWriteToFile
    \/ writeToFileFooter

Spec == Init /\ [][Next]_vars

\* parseVirtMetrics on its own, on every body of at most MaxLines lines
InitParse ==
    /\ pc = "scan"
    /\ panicked = "no"
    /\ body \in Bodies(MaxLines)
    /\ metrics \in InitialLists
    /\ initial = metrics
    /\ InitScanner /\ InitParser /\ InitFile /\ InitVirtConfig

NextParse ==
    \/ parseVirtMetricsScan
    \/ parseMetricTypeScan
    \/ parseVirtMetricsReturn

SpecParse == InitParse /\ [][NextParse]_vars

\* package virtconfig: init, then calls in any order
InitGates ==
    /\ pc = "virtconfig"
    /\ panicked = "no"
    /\ body = <<>>
    /\ metrics = <<>>
    /\ initial = <<>>
    /\ InitScanner /\ InitParser /\ InitFile /\ InitVirtConfig

NextGates ==
    \/ virtconfigInit
    \/ CallIsFeatureGateEnabled
    \/ CallDeprecatedFeatureGateInfo
    \/ CallerChangesInfo

SpecGates == InitGates /\ [][NextGates]_vars

---------------------------------------------------------------------------
(* What the claims speak of.                                               *)

\* of every line: its space-separated tokens, whether it is a help line or a
\* type line, and whether kubevirt_ occurs in it
LineFacts ==
    [line \in Lines |->
        [tokens |-> Split(line, " "),
         help |-> HasPrefix(line, "# HELP "),
         type |-> HasPrefix(line, "# TYPE "),
         passes |-> Contains(line, "kubevirt_")]]

Token(line, k) == LineFacts[line].tokens[k]
Tokens(line) == Len(LineFacts[line].tokens)
IsHelp(line) == LineFacts[line].help
IsType(line) == LineFacts[line].type
PassesFilter(line) == LineFacts[line].passes

\* a qualifying help line
IsQualifying(line) == IsHelp(line) /\ PassesFilter(line)

\* well-formed: every help line has a name and a description and is followed
\* at once by the type line of the same name, and every type line has a name
\* and a type
WellFormed(b) ==
    /\ \A i \in 1..Len(b) :
          IsHelp(b[i]) =>
              /\ Tokens(b[i]) >= 4
              /\ i < Len(b)
              /\ IsType(b[i + 1])
              /\ Token(b[i + 1], 3) = Token(b[i], 3)
    /\ \A i \in 1..Len(b) : IsType(b[i]) => Tokens(b[i]) = 4

\* the help-line loop has ended
LoopOver == pc \in {"check", "returned"}

\* the type lines for name after line i
LaterTypeLines(b, i, name) ==
    {j \in (i + 1)..Len(b) : IsType(b[j]) /\ Token(b[j], 3) = name}

Least(S) == CHOOSE x \in S : \A y \in S : x <= y

AppendedMetrics == [k \in 1..Len(appended) |-> appended[k].m]

C2_TypeOfLaterTypeLine ==
    /\ \A k \in 1..Len(appended) :
          LET e == appended[k]
              later == LaterTypeLines(body, e.help, e.m.name)
          IN  IF later = {}
              THEN e.m.mType = "" /\ e.type = 0
              ELSE /\ e.type = Least(later)
                   /\ e.m.mType = Title(Token(body[Least(later)], 4))
    /\ LoopOver =>
          LET qualifying == {i \in 1..Len(body) : IsQualifying(body[i])}
              first == Least(qualifying)
          IN  (/\ qualifying # {}
               /\ Tokens(body[first]) >= 4
               /\ LaterTypeLines(body, first, Token(body[first], 3)) = {})
              => /\ Len(appended) = 1
                 /\ appended[1].help = first
                 /\ appended[1].m.mType = ""
    /\ pc = "returned" => (err = "nil" <=> ~scanErr)

\* C2 witness: a clean parse has appended one descriptor with the type of its
\* type line and one, without a type line, with the empty type
C2_Witness ==
    /\ pc = "returned"
    /\ err = "nil"
    /\ \E k \in 1..Len(appended) :
          appended[k].type # 0 /\ appended[k].m.mType = "Gauge"
    /\ \E k \in 1..Len(appended) :
          appended[k].type = 0 /\ appended[k].m.mType = ""

\* C3: no descriptor is appended for a help line whose name, its 3rd token,
\* does not contain kubevirt_
C3_ForeignNameNeverExtracted ==
    \A k \in 1..Len(appended) :
        Contains(Token(body[appended[k].help], 3), "kubevirt_")

---------------------------------------------------------------------------

\* main has reached writeToFile
InRender == pc \in {"create", "opening", "blocks", "done"}

\* the names a list can hold: of the static entries, of the rules, and the
\* 3rd tokens of the lines
KnownNames ==
    {StaticMetrics[i].name : i \in 1..Len(StaticMetrics)}
        \cup {GetRecordingRules[i].Record : i \in 1..Len(GetRecordingRules)}
        \cup {Token(line, 3) : line \in Lines}

\* a < b, byte-wise, of every two of these names
ByteOrder == [a \in KnownNames |-> [b \in KnownNames |-> StrLess(a, b)]]

\* the metrics of list m at the indices idx are in non-decreasing byte-wise
\* order of name
NonDecreasing(m, idx) ==
    \A k \in 1..(Len(idx) - 1) : ~ByteOrder[m[idx[k + 1]].name][m[idx[k]].name]

Indices(m) == [i \in 1..Len(m) |-> i]
Of(ws) == [k \in 1..Len(ws) |-> ws[k].of]

IsHeading(w) == w.part = "heading"
IsWrittenHeading(w) == w.part = "heading" /\ w.ok

\* the metrics whose heading was written for, in the order of the writes, and
\* those whose heading is in the file
HeadingWrites == SelectSeq(writes, IsHeading)
DocumentHeadings == SelectSeq(writes, IsWrittenHeading)

\* C4: from the moment main calls writeToFile the list is sorted by name in
\* non-decreasing byte order and is the list the sort left; the renderer
\* writes the blocks of the 1st, 2nd, ... metric of the list, one each, so the
\* headings of the document are in non-decreasing order of name
C4_DocumentInOrderOfName ==
    InRender =>
        LET attempted == Of(HeadingWrites)
            written == Of(DocumentHeadings)
        IN  /\ NonDecreasing(metrics, Indices(metrics))
            /\ metrics = sortedAs
            /\ attempted = [k \in 1..Rendered |-> k]
            /\ NonDecreasing(metrics, written)
            /\ pc = "done" => Rendered = Len(metrics)

\* C4 witness: a document is complete whose list holds two parsed metrics
\* that the sort has moved from the end of the list
C4_Witness ==
    /\ pc = "done"
    /\ Failed = 0
    /\ Len(appended) = 2
    /\ metrics # initial \o AppendedMetrics

Count(seq, x) == Cardinality({i \in 1..Len(seq) : seq[i] = x})

IsPermutation(a, b) ==
    /\ Len(a) = Len(b)
    /\ \A i \in 1..Len(a) : Count(a, a[i]) = Count(b, a[i])

\* the three sources, concatenated
Sources == StaticMetrics \o RuleMetrics(GetRecordingRules) \o AppendedMetrics

\* the block of metrics[i] is in the file: its three writes succeeded
InDocument(i) ==
    \A part \in {"heading", "body", "blank"} :
        \E k \in 1..Len(writes) :
            writes[k].part = part /\ writes[k].of = i /\ writes[k].ok

\* the list handed to the renderer is a permutation of the three sources
CatalogIsPermutation ==
    InRender => LET sources == Sources IN IsPermutation(metrics, sources)

\* C5: when main has returned, the list is a permutation of the three sources,
\* of their size together, and the block of every static entry is in the
\* document
C5_EveryStaticEntryInDocument ==
    pc = "done" =>
        /\ Len(metrics) = Len(StaticMetrics) + Len(GetRecordingRules) + Len(appended)
        /\ LET sources == Sources IN IsPermutation(metrics, sources)
        /\ \A s \in 1..Len(StaticMetrics) :
              \E i \in 1..Len(metrics) :
                  metrics[i] = StaticMetrics[s] /\ InDocument(i)

\* C6: main returns only when the file was created and every write to it
\* succeeded
C6_DocumentCompleteOrRunFailed ==
    pc = "done" => (fileCreated /\ Failed = 0)

\* C7: a status other than 200 ends the run in a panic before anything is
\* parsed; parseVirtMetrics returns an error exactly when the scanner reports
\* one, and nil at the clean end of the stream; after either failure the file
\* is not created, nothing is written and the run ends in a panic
C7_ScrapeFailureIsFatal ==
    /\ (pc \notin {"main", "registry", "status"} /\ status # 200) =>
          /\ pc = "panicked" /\ panicked = "status"
          /\ cursor = 0 /\ ~scanDone /\ appended = <<>> /\ err = "none"
    /\ err # "none" =>
          /\ scanDone
          /\ err = "error" <=> scanErr
          /\ err = "nil" <=> ~scanErr
    /\ (scanErr \/ panicked \in {"status", "scan error"}) =>
          /\ ~InRender
          /\ ~fileCreated
          /\ writes = <<>>
    /\ (scanErr /\ pc \notin {"scan", "type", "check", "returned"}) =>
          pc = "panicked" /\ panicked = "scan error"

\* C7 witness: the scanner failed after a descriptor was appended, and the run
\* has ended in the panic of checkError
C7_Witness ==
    /\ pc = "panicked"
    /\ panicked = "scan error"
    /\ Len(appended) > 0

---------------------------------------------------------------------------

ShortQualifying(line) == IsQualifying(line) /\ Tokens(line) < 4

\* the step is the index-out-of-range panic: nothing is appended
CrashStep ==
    /\ pc' = "panicked"
    /\ panicked' = "index out of range"
    /\ metrics' = metrics
    /\ appended' = appended

\* C8 as stated: a body with a qualifying help line of fewer than 4 tokens is
\* never parsed to a normal return, and no file is created for it
C8_ShortHelpLineAlwaysCrashes ==
    (status = 200 /\ \E i \in 1..Len(body) : ShortQualifying(body[i])) =>
        (err # "nil" /\ ~fileCreated)

\* C8, amended: when the help-line loop reads a qualifying help line of fewer
\* than 4 tokens, and when the type search reads a type line of the name it
\* looks for that has no 4th token, the step is the panic; nothing is
\* appended, nothing follows the panic, parseVirtMetrics has not returned and
\* no file is created or written
C8_ShortLineCrashesWhereRead ==
    /\ [][/\ (pc = "scan" /\ ScanHasLine /\ ShortQualifying(body[cursor + 1]))
              => CrashStep
          /\ (/\ pc = "type" /\ ScanHasLine
              /\ IsType(body[cursor + 1])
              /\ Token(body[cursor + 1], 3) = metName
              /\ Tokens(body[cursor + 1]) < 4)
              => CrashStep
          /\ pc # "panicked"]_vars
    /\ [](panicked = "index out of range" =>
            /\ pc = "panicked"
            /\ err = "none"
            /\ ~fileCreated
            /\ writes = <<>>)

\* C8 witness: the help-line loop has read a qualifying help line of 3 tokens
\* and the run has ended in the panic
C8_Witness ==
    /\ pc = "panicked"
    /\ panicked = "index out of range"
    /\ ShortQualifying(body[cursor])
    /\ appended = <<>>

\* C9: the cursor never passes the end of the body; the lines of one
\* descriptor, from its help line to its type line, lie after those of the
\* descriptor before it, so a line read in a type search is never extracted as
\* a help line; and a descriptor whose type search found nothing is the last
\* one, with the cursor at the end of the stream
C9_OneForwardCursor ==
    /\ cursor <= Len(body)
    /\ \A k \in 1..Len(appended) :
          LET e == appended[k]
          IN  /\ 1 <= e.help /\ e.help <= cursor
              /\ e.type # 0 => (e.help < e.type /\ e.type <= cursor)
              /\ k > 1 => /\ appended[k - 1].type # 0
                          /\ appended[k - 1].type < e.help
              /\ e.type = 0 => /\ k = Len(appended)
                               /\ cursor = Len(body)
                               /\ scanDone
    /\ pc = "type" =>
          /\ helpAt <= cursor
          /\ \A k \in 1..Len(appended) :
                appended[k].type # 0 /\ appended[k].type < helpAt

\* C9 witness: the parse has returned, the type search of the last descriptor
\* found nothing, and a well-formed qualifying help line after its help line
\* was not extracted
C9_Witness ==
    /\ pc = "returned"
    /\ Len(appended) > 0
    /\ appended[Len(appended)].type = 0
    /\ \E i \in (appended[Len(appended)].help + 1)..Len(body) :
          IsQualifying(body[i]) /\ Tokens(body[i]) >= 4

\* the state the table declares for a gate
Marked(gate, state) ==
    \E i \in 1..Len(DeclaredFeatureGates) :
        DeclaredFeatureGates[i].Name = gate /\ DeclaredFeatureGates[i].State = state

InTable(gate) ==
    \E i \in 1..Len(DeclaredFeatureGates) : DeclaredFeatureGates[i].Name = gate

\* C10: isFeatureGateEnabled returns true for a gate marked GA and false for
\* one marked Discontinued, whatever the list, and for every other gate
\* whether the list holds it; DeprecatedFeatureGateInfo returns nil exactly for
\* a name the table does not hold, and else the entry of that name with a
\* message; after init every entry has a message, and the table stays as init
\* left it whatever a caller does with what it was returned
C10_FeatureGateTable ==
    /\ enabled.called =>
          enabled.result =
              IF Marked(enabled.gate, GA) THEN TRUE
              ELSE IF Marked(enabled.gate, Discontinued) THEN FALSE
              ELSE \E i \in 1..Len(enabled.list) : enabled.list[i] = enabled.gate
    /\ (info.called /\ ~info.changed) =>
          /\ info.ptr.found <=> InTable(info.gate)
          /\ info.ptr.found =>
                /\ info.ptr.value.Name = info.gate
                /\ Marked(info.gate, info.ptr.value.State)
                /\ info.ptr.value.Message # ""
                /\ \E i \in 1..Len(featureGates) : featureGates[i] = info.ptr.value
    /\ Len(featureGates) = Len(DeclaredFeatureGates)
    /\ \A i \in 1..Len(featureGates) :
          /\ featureGates[i].Name = DeclaredFeatureGates[i].Name
          /\ featureGates[i].State = DeclaredFeatureGates[i].State
          /\ fgInit => featureGates[i].Message # ""
          /\ DeclaredFeatureGates[i].Message # "" =>
                featureGates[i].Message = DeclaredFeatureGates[i].Message

\* C10 witness: a caller has changed the entry it was returned for Passt, and
\* a GA gate was reported enabled on an empty list
C10_Witness ==
    /\ info.called /\ info.changed
    /\ info.gate = PasstGate
    /\ info.ptr.value.State = Discontinued
    /\ enabled.called
    /\ enabled.gate = LiveMigrationGate
    /\ enabled.list = <<>>
    /\ enabled.result

===========================================================================
